---- MODULE Spec2Model ----
(***************************************************************************)
(* Model of scripts/my-services/convert_to_heimdall.py and                 *)
(* scripts/my-services/convert_to_homer.py: two command line pipelines     *)
(* that load services.yml and a JSON Schema, optionally validate, convert  *)
(* the document to a dashboard configuration and write it as YAML.         *)
(*                                                                         *)
(* Python values are tagged tuples: <<"null">>, <<"str", chars>>,          *)
(* <<"bool", b>>, <<"list", seq>>.  A mapping (dict) is a function whose   *)
(* DOMAIN is the set of keys that are present.  Strings that the code      *)
(* inspects (url) are sequences of one-character strings.                  *)
(***************************************************************************)
EXTENDS Integers, Sequences, FiniteSets, TLC

VARIABLES tool, no_validate, validate_only, services_file, schema_file,
          pc, services_data, schema, config, output_file, exit_code,
          error, stdout

vars == <<tool, no_validate, validate_only, services_file, schema_file,
          pc, services_data, schema, config, output_file, exit_code,
          error, stdout>>

(* ------------------------------- bounds -------------------------------- *)

MaxServices == 2

MaxUrlLen == 3

(* --------------------------- python values ----------------------------- *)

Null == <<"null">>

Str(s) == <<"str", s>>

Bool(b) == <<"bool", b>>

List(l) == <<"list", l>>

IsStr(v) == v[1] = "str"

Truthy(v) ==
  CASE v[1] = "null" -> FALSE
    [] v[1] = "str"  -> Len(v[2]) > 0
    [] v[1] = "bool" -> v[2]
    [] v[1] = "list" -> Len(v[2]) > 0

EmptyDict == [k \in {} |-> Null]

Get(m, k, default) == IF k \in DOMAIN m THEN m[k] ELSE default

EndsWith(s, c) == Len(s) > 0 /\ s[Len(s)] = c

Slash == "/"

Health == <<"h", "e", "a", "l", "t", "h">>

Raise(kind) == <<"raise", kind>>

Ok(v) == <<"ok", v>>

IsRaise(r) == r[1] = "raise"

(* ------------------- convert_to_heimdall.py: transform ----------------- *)

HeimdallSubscripted == {"name", "description", "url", "host", "category"}

(* variant: the slash is appended without looking at the end of the url *)
healthcheck_url_always_slash(service) ==
  IF Truthy(Get(service, "healthcheck", Bool(FALSE)))
  THEN Str(service["url"][2] \o <<Slash>> \o Health)
  ELSE Null

healthcheck_url(service) ==
  IF Truthy(Get(service, "healthcheck", Bool(FALSE)))
  THEN LET base_url == service["url"][2]
       IN  IF EndsWith(base_url, Slash)
           THEN Str(base_url \o Health)
           ELSE Str(base_url \o <<Slash>> \o Health)
  ELSE Null

(* variant: service.get('label') without the [] default *)
heimdall_labels_null(service) == Get(service, "label", Null)

heimdall_labels(service) == Get(service, "label", List(<<>>))

heimdall_aliases(service) == Get(service, "alias-name", List(<<>>))

heimdall_external(service) == Get(service, "external", Bool(FALSE))

(* variant: `if 'image' in service` instead of `if service.get('image')` *)
heimdall_has_icon_present(service) == "image" \in DOMAIN service

heimdall_has_icon(service) == Truthy(Get(service, "image", Null))

heimdall_keys(service) ==
  {"name", "description", "url", "host", "category", "labels", "aliases",
   "external", "healthcheck"}
    \cup (IF heimdall_has_icon(service) THEN {"icon"} ELSE {})

heimdall_raises(service) ==
  IF Truthy(Get(service, "healthcheck", Bool(FALSE)))
     /\ "url" \notin DOMAIN service
  THEN "KeyError"
  ELSE IF Truthy(Get(service, "healthcheck", Bool(FALSE)))
          /\ ~IsStr(service["url"])
  THEN "AttributeError"
  ELSE IF \E k \in HeimdallSubscripted : k \notin DOMAIN service
  THEN "KeyError"
  ELSE "none"

heimdall_service(service) ==
  [k \in heimdall_keys(service) |->
     CASE k = "name"        -> service["name"]
       [] k = "description" -> service["description"]
       [] k = "url"         -> service["url"]
       [] k = "host"        -> service["host"]
       [] k = "category"    -> service["category"]
       [] k = "labels"      -> heimdall_labels(service)
       [] k = "aliases"     -> heimdall_aliases(service)
       [] k = "external"    -> heimdall_external(service)
       [] k = "healthcheck" ->
            <<"map", [enabled |-> Get(service, "healthcheck", Bool(FALSE)),
                      url     |-> healthcheck_url(service)]>>
       [] k = "icon"        -> service["image"]]

FirstRaise(outcomes) ==
  LET bad == {i \in 1..Len(outcomes) : outcomes[i] # "none"}
  IN  IF bad = {} THEN "none"
      ELSE outcomes[CHOOSE i \in bad : \A j \in bad : i <= j]

(* variant: a record that raises is skipped instead of ending the run *)
convert_to_heimdall_format_skip(data) ==
  LET services == SelectSeq(Get(data, "services", <<>>),
                            LAMBDA r : heimdall_raises(r) = "none")
  IN  Ok([version     |-> "1.0",
          name        |-> "My Services Dashboard",
          description |-> "on-premises service list",
          services    |-> [i \in 1..Len(services) |->
                             heimdall_service(services[i])]])

convert_to_heimdall_format(data) ==
  LET services == Get(data, "services", <<>>)
      exc      == FirstRaise([i \in 1..Len(services) |->
                              heimdall_raises(services[i])])
  IN  IF exc # "none" THEN Raise(exc)
      ELSE Ok([version     |-> "1.0",
               name        |-> "My Services Dashboard",
               description |-> "on-premises service list",
               services    |-> [i \in 1..Len(services) |->
                                  heimdall_service(services[i])]])

(* --------------------- convert_to_homer.py: transform ------------------ *)

HomerSubscripted == {"name", "url"}

homer_has_logo(service) == Truthy(Get(service, "image", Null))

homer_keys(service) ==
  {"name", "url", "_target"}
    \cup (IF Truthy(Get(service, "description", Null))
          THEN {"subtitle"} ELSE {})
    \cup (IF homer_has_logo(service) THEN {"logo"} ELSE {})

homer_raises(service) ==
  IF \E k \in HomerSubscripted : k \notin DOMAIN service
  THEN "KeyError" ELSE "none"

homer_item(service) ==
  [k \in homer_keys(service) |->
     CASE k = "name"     -> service["name"]
       [] k = "url"      -> service["url"]
       [] k = "subtitle" -> service["description"]
       [] k = "logo"     -> service["image"]
       [] k = "_target"  -> Str(<<"self">>)]

(* variant: the loop starts at the second record *)
to_homer_items_skip_first(services) ==
  LET exc == FirstRaise([i \in 1..Len(services) |->
                         homer_raises(services[i])])
  IN  IF exc # "none" THEN Raise(exc)
      ELSE IF Len(services) = 0 THEN Ok(<<>>)
      ELSE Ok([i \in 1..(Len(services) - 1) |-> homer_item(services[i + 1])])

to_homer_items(services) ==
  LET exc == FirstRaise([i \in 1..Len(services) |->
                         homer_raises(services[i])])
  IN  IF exc # "none" THEN Raise(exc)
      ELSE Ok([i \in 1..Len(services) |-> homer_item(services[i])])

convert_to_homer_config(data) ==
  LET services_list == Get(data, "services", <<>>)
      items         == to_homer_items(services_list)
  IN  IF IsRaise(items) THEN items
      ELSE Ok([title    |-> "My Services",
               subtitle |-> "on-premises service list",
               theme    |-> "default",
               message  |-> "",
               links    |-> <<>>,
               services |-> << [name  |-> "Services",
                                icon  |-> "fas fa-th",
                                items |-> items[2]] >>])

(* ------------------------------- writer -------------------------------- *)

(* yaml.dump(config, file, sort_keys=False): the emitter streams the       *)
(* document to the file in key insertion order; `services` is the last     *)
(* top-level key of both configurations.                                   *)
serialize_heimdall(cfg) ==
  << <<"top", cfg.version, cfg.name, cfg.description>> >>
    \o [i \in 1..Len(cfg.services) |-> <<"service", cfg.services[i]>>]

serialize_homer(cfg) ==
  << <<"top", cfg.title, cfg.subtitle, cfg.theme, cfg.message, cfg.links>>,
     <<"group", cfg.services[1].name, cfg.services[1].icon>> >>
    \o [i \in 1..Len(cfg.services[1].items) |->
          <<"item", cfg.services[1].items[i]>>]

yaml_dump(t, cfg) ==
  IF t = "heimdall" THEN serialize_heimdall(cfg) ELSE serialize_homer(cfg)

(* ------------------------------ validator ------------------------------ *)

(* jsonschema.validate for the schema features the inputs below use:       *)
(* `required` at the top level and per item, and `type` per item property. *)
Conforms(data, sch) ==
  /\ sch.required_top \subseteq DOMAIN data
  /\ LET services == Get(data, "services", <<>>)
     IN  \A i \in 1..Len(services) :
           /\ sch.required_item \subseteq DOMAIN services[i]
           /\ \A k \in DOMAIN services[i] \cap DOMAIN sch.types :
                services[i][k][1] \in sch.types[k]

(* variant: the ValidationError is swallowed and True returned *)
validate_data_accept(data, sch) == TRUE

validate_data(data, sch) == Conforms(data, sch)

(* ------------------------------- inputs -------------------------------- *)

Tools == {"heimdall", "homer"}

RequiredFields == {"name", "description", "url", "host", "category"}

Chars == {"a", Slash}

RECURSIVE SeqsUpTo(_, _)
SeqsUpTo(S, n) ==
  IF n = 0 THEN {<<>>}
  ELSE LET shorter == SeqsUpTo(S, n - 1)
       IN  shorter \cup {Append(s, c) : s \in shorter, c \in S}

Urls == SeqsUpTo(Chars, MaxUrlLen)

With(m, k, v) == [x \in DOMAIN m \cup {k} |-> IF x = k THEN v ELSE m[x]]

Without(m, k) == [x \in DOMAIN m \ {k} |-> m[x]]

BaseService ==
  [k \in RequiredFields |->
     CASE k = "name"        -> Str(<<"n">>)
       [] k = "description" -> Str(<<"d">>)
       [] k = "url"         -> Str(<<"a">>)
       [] k = "host"        -> Str(<<"h">>)
       [] k = "category"    -> Str(<<"c">>)]

Absent == <<"absent">>

Opt(m, k, v) == IF v = Absent THEN m ELSE With(m, k, v)

IncompleteServices == {Without(BaseService, k) : k \in RequiredFields}

UrlServices ==
  {Opt(With(BaseService, "url", u), "healthcheck", h) :
     u \in {Str(s) : s \in Urls} \cup {Null},
     h \in {Absent, Bool(TRUE), Bool(FALSE)}}

OptionalServices ==
  {Opt(Opt(Opt(Opt(BaseService, "image", i), "label", l),
           "alias-name", a), "external", e) :
     i \in {Absent, Null, Str(<<>>), Str(<<"i">>)},
     l \in {Absent, Null, List(<<>>), List(<<"l">>)},
     a \in {Absent, Null, List(<<>>), List(<<"l">>)},
     e \in {Absent, Bool(TRUE), Bool(FALSE)}}

DescriptionServices ==
  {With(BaseService, "description", Str(<<>>))}

ListServices ==
  {BaseService, With(With(BaseService, "healthcheck", Bool(TRUE)),
                     "image", Str(<<"i">>))}
    \cup IncompleteServices

RECURSIVE ServiceLists(_)
ServiceLists(n) ==
  IF n = 0 THEN {<<>>}
  ELSE LET shorter == ServiceLists(n - 1)
       IN  shorter \cup {Append(s, r) : s \in shorter, r \in ListServices}

Documents ==
  {EmptyDict}
    \cup {[k \in {"services"} |-> s] : s \in ServiceLists(MaxServices)}
    \cup {[k \in {"services"} |-> <<r>>] :
            r \in UrlServices \cup OptionalServices \cup DescriptionServices}

ItemTypes ==
  [k \in RequiredFields \cup
         {"label", "alias-name", "external", "healthcheck", "image"} |->
     CASE k \in RequiredFields             -> {"str"}
       [] k \in {"label", "alias-name"}    -> {"list"}
       [] k \in {"external", "healthcheck"} -> {"bool"}
       [] k = "image"                      -> {"str"}]

StrictSchema ==
  [required_top |-> {"services"}, required_item |-> RequiredFields,
   types |-> ItemTypes]

RequiredOnlySchema ==
  [required_top |-> {"services"}, required_item |-> RequiredFields,
   types |-> EmptyDict]

PermissiveSchema ==
  [required_top |-> {}, required_item |-> {}, types |-> EmptyDict]

Schemas == {StrictSchema, RequiredOnlySchema, PermissiveSchema}

FileStates(contents) ==
  {<<"missing">>, <<"malformed">>} \cup {<<"ok", c>> : c \in contents}

(* ------------------------------ pipeline ------------------------------- *)

inputs == <<tool, no_validate, validate_only, services_file, schema_file>>

NoValue == [k \in {"unset"} |-> TRUE]

Init ==
  /\ tool \in Tools
  /\ no_validate \in BOOLEAN
  /\ validate_only \in BOOLEAN
  /\ services_file \in FileStates(Documents)
  /\ schema_file \in FileStates(Schemas)
  /\ output_file \in {<<"absent">>, <<"old">>}
  /\ pc = "check_services"
  /\ services_data = NoValue
  /\ schema = NoValue
  /\ config = NoValue
  /\ exit_code = <<>>
  /\ error = "none"
  /\ stdout = <<"Starting configuration conversion...">>

(* sys.exit(1) after the given messages, or an uncaught exception (the     *)
(* interpreter prints the traceback and exits with status 1).              *)
Exit1(kind, messages) ==
  /\ pc' = "failed"
  /\ exit_code' = <<1>>
  /\ error' = kind
  /\ stdout' = stdout \o messages

Goto(label, messages) ==
  /\ pc' = label
  /\ stdout' = stdout \o messages
  /\ UNCHANGED <<exit_code, error>>

CheckServicesExists ==
  /\ pc = "check_services"
  /\ IF services_file[1] = "missing"
     THEN Exit1("FileNotFound", <<"Error: File does not exist.">>)
     ELSE Goto("check_schema", <<>>)
  /\ UNCHANGED <<inputs, services_data, schema, config, output_file>>

CheckSchemaExists ==
  /\ pc = "check_schema"
  /\ IF schema_file[1] = "missing"
     THEN Exit1("FileNotFound", <<"Error: File does not exist.">>)
     ELSE Goto("load_services", <<>>)
  /\ UNCHANGED <<inputs, services_data, schema, config, output_file>>

load_yaml_file ==
  /\ pc = "load_services"
  /\ IF services_file[1] = "missing"
     THEN /\ Exit1("FileNotFound", <<"Loading services.yml...",
                                     "Error: File not found.">>)
          /\ UNCHANGED services_data
     ELSE IF services_file[1] = "malformed"
     THEN /\ Exit1("ParseError", <<"Loading services.yml...",
                                   "Error: Failed to parse YAML file">>)
          /\ UNCHANGED services_data
     ELSE /\ Goto("load_schema", <<"Loading services.yml...">>)
          /\ services_data' = services_file[2]
  /\ UNCHANGED <<inputs, schema, config, output_file>>

(* variant: the schema is only loaded when validation is requested *)
load_json_schema_lazy ==
  /\ pc = "load_schema"
  /\ IF no_validate
     THEN /\ Goto("validate", <<>>)
          /\ UNCHANGED schema
     ELSE IF schema_file[1] = "malformed"
     THEN /\ Exit1("ParseError", <<"Loading JSON Schema...",
                                   "Error: Failed to parse JSON file">>)
          /\ UNCHANGED schema
     ELSE /\ Goto("validate", <<"Loading JSON Schema...">>)
          /\ schema' = schema_file[2]
  /\ UNCHANGED <<inputs, services_data, config, output_file>>

load_json_schema ==
  /\ pc = "load_schema"
  /\ IF schema_file[1] = "missing"
     THEN /\ Exit1("FileNotFound", <<"Loading JSON Schema...",
                                     "Error: File not found.">>)
          /\ UNCHANGED schema
     ELSE IF schema_file[1] = "malformed"
     THEN /\ Exit1("ParseError", <<"Loading JSON Schema...",
                                   "Error: Failed to parse JSON file">>)
          /\ UNCHANGED schema
     ELSE /\ Goto("validate", <<"Loading JSON Schema...">>)
          /\ schema' = schema_file[2]
  /\ UNCHANGED <<inputs, services_data, config, output_file>>

(* variant: the validator is never called *)
Validate_skip ==
  /\ pc = "validate"
  /\ Goto("check_validate_only", <<"Skipping validation.">>)
  /\ UNCHANGED <<inputs, services_data, schema, config, output_file>>

Validate ==
  /\ pc = "validate"
  /\ IF ~no_validate
     THEN IF validate_data(services_data, schema)
          THEN Goto("check_validate_only",
                    <<"Validating data...", "Data conforms to the schema.">>)
          ELSE Exit1("SchemaViolation",
                     <<"Validating data...", "Validation error",
                       "Validation failed. Aborting.">>)
     ELSE Goto("check_validate_only", <<"Skipping validation.">>)
  /\ UNCHANGED <<inputs, services_data, schema, config, output_file>>

ValidateOnly ==
  /\ pc = "check_validate_only"
  /\ IF validate_only
     THEN /\ pc' = "validate_only_exit"
          /\ exit_code' = <<0>>
          /\ stdout' = stdout
                 \o <<"Validation-only run. No conversion performed.">>
          /\ UNCHANGED error
     ELSE Goto("convert", <<>>)
  /\ UNCHANGED <<inputs, services_data, schema, config, output_file>>

convert(t, data) ==
  IF t = "heimdall" THEN convert_to_heimdall_format(data)
  ELSE convert_to_homer_config(data)

Convert ==
  /\ pc = "convert"
  /\ LET result == convert(tool, services_data)
     IN  IF IsRaise(result)
         THEN /\ Exit1(result[2], <<"Converting...", "Traceback">>)
              /\ UNCHANGED config
         ELSE /\ Goto("write_open", <<"Converting...">>)
              /\ config' = result[2]
  /\ UNCHANGED <<inputs, services_data, schema, output_file>>

(* variant: a failed open is retried instead of ending the run *)
WriteOpen_retry ==
  /\ pc = "write_open"
  /\ \E opened \in BOOLEAN :
       IF opened
       THEN /\ Goto("write_dump", <<"Writing configuration file...">>)
            /\ output_file' = <<"data", <<>>>>
       ELSE /\ error' = "WriteError"
            /\ UNCHANGED <<pc, exit_code, stdout, output_file>>
  /\ UNCHANGED <<inputs, services_data, schema, config>>

(* open(output_path, 'w'): fails and leaves the path alone, or creates /   *)
(* truncates the file.                                                     *)
WriteOpen ==
  /\ pc = "write_open"
  /\ \E opened \in BOOLEAN :
       IF opened
       THEN /\ Goto("write_dump", <<"Writing configuration file...">>)
            /\ output_file' = <<"data", <<>>>>
       ELSE /\ Exit1("WriteError", <<"Writing configuration file...",
                                     "Failed to save file">>)
            /\ UNCHANGED output_file
  /\ UNCHANGED <<inputs, services_data, schema, config>>

(* variant: the file is closed one chunk before the end of the document *)
WriteDump_early ==
  /\ pc = "write_dump"
  /\ LET document == yaml_dump(tool, config)
         written  == Len(output_file[2])
     IN  \E io_ok \in BOOLEAN :
           IF ~io_ok
           THEN /\ Exit1("WriteError", <<"Failed to save file">>)
                /\ UNCHANGED output_file
           ELSE IF written < Len(document) - 1
           THEN /\ output_file' =
                     <<"data", Append(output_file[2], document[written + 1])>>
                /\ UNCHANGED <<pc, exit_code, error, stdout>>
           ELSE /\ Goto("report", <<"Generated config">>)
                /\ UNCHANGED output_file
  /\ UNCHANGED <<inputs, services_data, schema, config>>

(* yaml.dump streams the document into the open file; an I/O error at any  *)
(* point is caught by `except Exception` and ends the run.                 *)
WriteDump ==
  /\ pc = "write_dump"
  /\ LET document == yaml_dump(tool, config)
         written  == Len(output_file[2])
     IN  \E io_ok \in BOOLEAN :
           IF ~io_ok
           THEN /\ Exit1("WriteError", <<"Failed to save file">>)
                /\ UNCHANGED output_file
           ELSE IF written < Len(document)
           THEN /\ output_file' =
                     <<"data", Append(output_file[2], document[written + 1])>>
                /\ UNCHANGED <<pc, exit_code, error, stdout>>
           ELSE /\ Goto("report", <<"Generated config">>)
                /\ UNCHANGED output_file
  /\ UNCHANGED <<inputs, services_data, schema, config>>

Report ==
  /\ pc = "report"
  /\ pc' = "done"
  /\ exit_code' = <<0>>
  /\ stdout' = stdout \o <<"Conversion completed!">>
  /\ UNCHANGED <<inputs, services_data, schema, config, output_file, error>>

Next ==
  \/ CheckServicesExists
  \/ CheckSchemaExists
  \/ load_yaml_file
  \/ load_json_schema
  \/ Validate
  \/ ValidateOnly
  \/ Convert
  \/ WriteOpen
  \/ WriteDump
  \/ Report

Spec == Init /\ [][Next]_vars

(* ----------------------- vocabulary of the claims ---------------------- *)

Terminal == pc \in {"done", "failed", "validate_only_exit"}

Converted ==
  \/ pc \in {"write_open", "write_dump", "report", "done"}
  \/ pc = "failed" /\ error = "WriteError"

OutputUntouched == output_file[1] \in {"absent", "old"}

Source == Get(services_data, "services", <<>>)

InputServices ==
  IF services_file[1] = "ok" THEN Get(services_file[2], "services", <<>>)
  ELSE <<>>

ValidDocument(d) == Conforms(d, StrictSchema)

ViolatesSchema ==
  /\ services_file[1] = "ok"
  /\ schema_file[1] = "ok"
  /\ ~Conforms(services_file[2], schema_file[2])

Contains(seq, x) == \E i \in 1..Len(seq) : seq[i] = x

IsPrefix(p, s) == Len(p) <= Len(s) /\ \A i \in 1..Len(p) : p[i] = s[i]

EndsWithSeq(s, suffix) ==
  /\ Len(s) >= Len(suffix)
  /\ \A i \in 1..Len(suffix) : s[Len(s) - Len(suffix) + i] = suffix[i]

(* C1: for a valid document the top-level `services` of the produced       *)
(* configuration is as long as the input `services`, in both converters.   *)
C1_ServicesLength ==
  (Converted /\ ValidDocument(services_data))
    => Len(config.services) = Len(Source)

(* C1 (amended): the Heimdall `services` sequence, and the `items` of the  *)
(* single Homer group, are as long as the input `services`; the Homer      *)
(* top-level `services` always has length one.                             *)
C1_EntriesLength ==
  (Converted /\ ValidDocument(services_data))
    => IF tool = "heimdall"
       THEN Len(config.services) = Len(Source)
       ELSE /\ Len(config.services) = 1
            /\ Len(config.services[1].items)
                 = Len(Source)

C1_Witness ==
  /\ Converted
  /\ ValidDocument(services_data)
  /\ tool = "homer"
  /\ Len(Source) = 2

(* C2: with validation enabled and a document that violates the schema the *)
(* run can only end failed with exit code 1, never converts or writes, and *)
(* the output path keeps its pre-run content.                              *)
C2_ValidationShortCircuit ==
  (~no_validate /\ ViolatesSchema)
    => /\ OutputUntouched
       /\ pc \notin {"check_validate_only", "validate_only_exit", "convert",
                     "write_open", "write_dump", "report", "done"}
       /\ Terminal => (pc = "failed" /\ exit_code = <<1>>)

C2_Witness ==
  /\ ~no_validate
  /\ ViolatesSchema
  /\ pc = "failed"
  /\ error = "SchemaViolation"
  /\ exit_code = <<1>>
  /\ \E i \in 1..Len(InputServices) : "name" \notin DOMAIN InputServices[i]

(* C3: in every reachable state the output file holds its pre-run content  *)
(* or the complete serialized document; never an empty or partial one.     *)
C3_AtomicWrite ==
  \/ OutputUntouched
  \/ output_file = <<"data", yaml_dump(tool, config)>>

(* C3 (amended): the output file holds its pre-run content or a prefix of  *)
(* the serialized document; the prefix is the complete document once the   *)
(* writer has finished, and stays incomplete (possibly empty) only in a    *)
(* run whose write step failed after the file was opened.                  *)
C3_PrefixWrite ==
  /\ OutputUntouched \/ IsPrefix(output_file[2], yaml_dump(tool, config))
  /\ pc \in {"report", "done"}
       => output_file = <<"data", yaml_dump(tool, config)>>
  /\ (Terminal /\ ~OutputUntouched
        /\ output_file # <<"data", yaml_dump(tool, config)>>)
       => (pc = "failed" /\ error = "WriteError" /\ exit_code = <<1>>)
  /\ ~OutputUntouched => Converted /\ pc # "write_open"

C3_Witness ==
  /\ pc = "failed"
  /\ error = "WriteError"
  /\ output_file[1] = "data"
  /\ Len(output_file[2]) > 0
  /\ Len(output_file[2]) < Len(yaml_dump(tool, config))

(* C4: whenever a --validate-only run exits 0, whatever the other flags,   *)
(* the validator has run and accepted the document and no output file was  *)
(* produced.                                                               *)
C4_ValidateOnly ==
  (validate_only /\ exit_code = <<0>>)
    => /\ Contains(stdout, "Data conforms to the schema.")
       /\ Conforms(services_data, schema)
       /\ OutputUntouched
       /\ pc = "validate_only_exit"

(* C4 (amended): a --validate-only run never transforms or writes and, when*)
(* it exits 0 without --no-validate, the validator has run and accepted    *)
(* the document; with --no-validate it exits 0 with the validator skipped. *)
C4_ValidateOnlyUnlessSkipped ==
  validate_only
    => /\ OutputUntouched
       /\ pc \notin {"convert", "write_open", "write_dump", "report", "done"}
       /\ exit_code = <<0>>
            => /\ pc = "validate_only_exit"
               /\ IF no_validate
                  THEN /\ ~Contains(stdout, "Data conforms to the schema.")
                       /\ Contains(stdout, "Skipping validation.")
                  ELSE /\ Contains(stdout, "Data conforms to the schema.")
                       /\ Conforms(services_data, schema)

C4_Witness ==
  /\ validate_only
  /\ ~no_validate
  /\ pc = "validate_only_exit"
  /\ exit_code = <<0>>
  /\ Len(InputServices) > 0

(* C5: the steps run only in the order Loading, Validating, Transforming,  *)
(* Writing, Done without revisiting one; a failure goes directly to the    *)
(* terminal Failed state with exit code 1; exit code 0 only comes with     *)
(* Done or with the validate-only exit.                                    *)
StepOrder ==
  [p \in {"check_services", "check_schema", "load_services", "load_schema",
          "validate", "check_validate_only", "convert", "write_open",
          "write_dump", "report", "done"} |->
     CASE p = "check_services"      -> 1
       [] p = "check_schema"        -> 2
       [] p = "load_services"       -> 3
       [] p = "load_schema"         -> 4
       [] p = "validate"            -> 5
       [] p = "check_validate_only" -> 6
       [] p = "convert"             -> 7
       [] p = "write_open"          -> 8
       [] p = "write_dump"          -> 9
       [] p = "report"              -> 10
       [] p = "done"                -> 11]

PhaseOrder ==
  [p \in DOMAIN StepOrder |->
     CASE p \in {"check_services", "check_schema", "load_services",
                 "load_schema"}                    -> 1
       [] p \in {"validate", "check_validate_only"} -> 2
       [] p = "convert"                             -> 3
       [] p \in {"write_open", "write_dump"}        -> 4
       [] p \in {"report", "done"}                  -> 5]

C5_ExitCodes ==
  /\ exit_code = <<>> <=> ~Terminal
  /\ exit_code = <<1>> <=> pc = "failed"
  /\ exit_code = <<0>> <=> pc \in {"done", "validate_only_exit"}
  /\ error # "none" <=> pc = "failed"
  /\ pc = "validate_only_exit" => validate_only

C5_Step ==
  /\ ~Terminal
  /\ \/ pc' = "failed"
     \/ pc' = "validate_only_exit" /\ pc = "check_validate_only"
     \/ /\ pc' \in DOMAIN StepOrder
        /\ \/ StepOrder[pc'] = StepOrder[pc] + 1
           \/ pc' = pc /\ pc = "write_dump"
                /\ Len(output_file'[2]) = Len(output_file[2]) + 1
        /\ PhaseOrder[pc'] \in {PhaseOrder[pc], PhaseOrder[pc] + 1}

C5_LinearPipeline == [](C5_ExitCodes) /\ [][C5_Step]_vars

C5_Witness ==
  /\ pc = "failed"
  /\ error = "WriteError"
  /\ exit_code = <<1>>
  /\ ~no_validate

(* C6: for every record with healthcheck true and every url string the     *)
(* Heimdall health-check URL is the url joined to `health` by exactly one  *)
(* `/`: it ends in `/health` and never in `//health`.                      *)
HeimdallConverted == Converted /\ tool = "heimdall"

HealthUrlOf(i) == config.services[i]["healthcheck"][2].url

HealthChecked(i) ==
  /\ "healthcheck" \in DOMAIN Source[i]
  /\ Source[i]["healthcheck"] = Bool(TRUE)

DropTrailingSlash(s) ==
  IF EndsWith(s, Slash) THEN SubSeq(s, 1, Len(s) - 1) ELSE s

C6_SingleSlash ==
  HeimdallConverted
    => \A i \in 1..Len(config.services) :
         HealthChecked(i)
           => LET url == Source[i]["url"][2]
                  h   == HealthUrlOf(i)
              IN  /\ h[1] = "str"
                  /\ IsPrefix(url, h[2])
                  /\ EndsWithSeq(h[2], <<Slash>> \o Health)
                  /\ ~EndsWithSeq(h[2], <<Slash, Slash>> \o Health)

(* C6 (amended): for a url that does not end in two or more slashes the    *)
(* health-check URL is the url without its trailing slash, followed by     *)
(* `/health`; a url ending in `//` keeps a doubled slash before `health`.  *)
C6_SingleSlashUnlessDoubled ==
  HeimdallConverted
    => \A i \in 1..Len(config.services) :
         HealthChecked(i)
           => LET url == Source[i]["url"][2]
                  h   == HealthUrlOf(i)
              IN  /\ h[1] = "str"
                  /\ EndsWithSeq(h[2], <<Slash>> \o Health)
                  /\ IF EndsWithSeq(url, <<Slash, Slash>>)
                     THEN h[2] = url \o Health
                     ELSE /\ h[2] = DropTrailingSlash(url)
                                      \o <<Slash>> \o Health
                          /\ ~EndsWithSeq(h[2], <<Slash, Slash>> \o Health)

C6_Witness ==
  /\ HeimdallConverted
  /\ Len(config.services) = 1
  /\ HealthChecked(1)
  /\ Source[1]["url"] = Str(<<"a", Slash>>)
  /\ HealthUrlOf(1) = Str(<<"a", Slash>> \o Health)

(* C7: the Heimdall record has an `icon` key, and the Homer item a `logo`  *)
(* key, if and only if the source `image` is present and non-empty; the    *)
(* key is never present with a null or empty value.                        *)
ImageGiven(service) ==
  /\ "image" \in DOMAIN service
  /\ service["image"] # Null
  /\ service["image"] # Str(<<>>)

C7_IconOmission ==
  Converted
    => LET src == Get(services_data, "services", <<>>)
           out == IF tool = "heimdall" THEN config.services
                  ELSE config.services[1].items
           key == IF tool = "heimdall" THEN "icon" ELSE "logo"
       IN  \A i \in 1..Len(src) :
             /\ key \in DOMAIN out[i] <=> ImageGiven(src[i])
             /\ key \in DOMAIN out[i]
                  => /\ out[i][key] = src[i]["image"]
                     /\ out[i][key] \notin {Null, Str(<<>>)}

C7_Witness ==
  /\ Converted
  /\ tool = "homer"
  /\ Len(Source) = 1
  /\ "image" \in DOMAIN Source[1]
  /\ Source[1]["image"] = Str(<<>>)
  /\ "logo" \notin DOMAIN config.services[1].items[1]

(* C8: Heimdall `labels` is the record's `label`, `aliases` its            *)
(* `alias-name`, each replaced by the empty sequence when omitted or       *)
(* without a value, so both are always sequences; `external` is false      *)
(* when not given.                                                         *)
GivenOr(service, k, default) ==
  IF k \in DOMAIN service /\ service[k] # Null THEN service[k] ELSE default

C8_Defaults ==
  HeimdallConverted
    => \A i \in 1..Len(config.services) :
         LET src == Source[i]
             out == config.services[i]
         IN  /\ out["labels"] = GivenOr(src, "label", List(<<>>))
             /\ out["aliases"] = GivenOr(src, "alias-name", List(<<>>))
             /\ out["labels"][1] = "list"
             /\ out["aliases"][1] = "list"
             /\ "external" \notin DOMAIN src => out["external"] = Bool(FALSE)

(* C8 (amended): the defaults apply only when the key is omitted; a key    *)
(* that is present is copied as it is, so `label` or `alias-name` present  *)
(* without a value gives a null `labels` / `aliases`.                      *)
C8_DefaultsWhenOmitted ==
  HeimdallConverted
    => \A i \in 1..Len(config.services) :
         LET src == Source[i]
             out == config.services[i]
         IN  /\ IF "label" \in DOMAIN src
                THEN out["labels"] = src["label"]
                ELSE out["labels"] = List(<<>>)
             /\ IF "alias-name" \in DOMAIN src
                THEN out["aliases"] = src["alias-name"]
                ELSE out["aliases"] = List(<<>>)
             /\ IF "external" \in DOMAIN src
                THEN out["external"] = src["external"]
                ELSE out["external"] = Bool(FALSE)

C8_Witness ==
  /\ HeimdallConverted
  /\ Len(config.services) = 1
  /\ DOMAIN Source[1] = RequiredFields
  /\ config.services[1]["labels"] = List(<<>>)
  /\ config.services[1]["aliases"] = List(<<>>)
  /\ config.services[1]["external"] = Bool(FALSE)

(* C9: with --no-validate and a record lacking a required field the run    *)
(* ends Failed with a non-zero exit, never reaches Writing or Done, and    *)
(* writes no output.                                                       *)
Lacks(fields) ==
  \E i \in 1..Len(InputServices) :
    \E k \in fields : k \notin DOMAIN InputServices[i]

NeverWrites ==
  /\ pc \notin {"write_open", "write_dump", "report", "done"}
  /\ OutputUntouched

C9_MissingFieldFatal ==
  (no_validate /\ Lacks(RequiredFields))
    => /\ NeverWrites
       /\ Terminal => (pc = "failed" /\ exit_code = <<1>>)

(* C9 (amended): the run is fatal when --validate-only is not given and    *)
(* the missing field is one the converter subscripts: any of the five in   *)
(* Heimdall, `name` or `url` in Homer.  With --validate-only the run exits *)
(* 0 before converting; a Homer run whose records lack only `description`, *)
(* `host` or `category` completes and writes.                              *)
SubscriptedBy(t) ==
  IF t = "heimdall" THEN RequiredFields ELSE {"name", "url"}

C9_SubscriptedFieldFatal ==
  (no_validate /\ Lacks(SubscriptedBy(tool)))
    => /\ NeverWrites
       /\ Terminal
            => \/ pc = "failed" /\ exit_code = <<1>>
               \/ validate_only /\ pc = "validate_only_exit"
       /\ (pc = "failed" /\ schema_file[1] = "ok")
            => (~validate_only /\ error \in {"KeyError", "AttributeError"})

C9_Witness ==
  /\ no_validate
  /\ ~validate_only
  /\ tool = "heimdall"
  /\ Lacks({"category"})
  /\ ~Lacks({"name", "url"})
  /\ pc = "failed"
  /\ error = "KeyError"
  /\ exit_code = <<1>>

(* C10: the schema file is checked and loaded before the validation flag   *)
(* is consulted: also with --no-validate a missing or unparseable schema   *)
(* ends the run with exit code 1 before transforming or writing, and Done  *)
(* is reached only with the schema loaded.                                 *)
C10_SchemaLoadedFirst ==
  /\ pc \in {"validate", "check_validate_only", "validate_only_exit",
             "convert", "write_open", "write_dump", "report", "done"}
       => (schema_file[1] = "ok" /\ schema = schema_file[2])
  /\ schema_file[1] # "ok"
       => /\ OutputUntouched
          /\ config = NoValue
          /\ Terminal => (pc = "failed" /\ exit_code = <<1>>)

C10_Witness ==
  /\ no_validate
  /\ schema_file[1] = "malformed"
  /\ services_file[1] = "ok"
  /\ pc = "failed"
  /\ error = "ParseError"
  /\ exit_code = <<1>>

====
